---- MODULE Spec2Model ----
(***************************************************************************)
(* A model of the notebooks of biovisualize:                               *)
(*   - the network notebook: pathway subsets, the three subgraphs, the     *)
(*     shell partition make_shells, node weights, inter-graph edges;       *)
(*   - the tree notebook: the category hierarchy builder add_subset;       *)
(*   - the taxonomy plots: make_plotdata, update_taxa and the widgets of   *)
(*     barplot, clustermap and boxplot.                                    *)
(* Each notebook part has its own specification over the same variables;   *)
(* the variables a specification does not use stay at their idle value.    *)
(***************************************************************************)
EXTENDS Integers, Sequences, FiniteSets, TLC

\* ---------------------------------------------------------------- bounds
MaxNodes == 12     \* longest node list handed to make_shells
MaxShells == 6     \* largest num_shells (the notebook uses 3 and 6)
MaxCount == 2      \* largest connection count of a node in the shell runs
MaxRows == 2       \* most rows of the category table metacyc_df (tree notebook)
MaxDfRows == 3     \* most rows of metacyc_df (network notebook)
MaxGraphRows == 2  \* most rows of the pathway-graph table metacyc_graph
MaxOrfs == 15      \* most ORFs (rows) of a taxonomy file

VARIABLES
    \* make_shells
    pc,               \* position of the running function / notebook
    py,               \* major version of the interpreter (bio.yml: 2, bio35.yml: 3)
    num_shells,       \* argument num_shells
    input,            \* the list make_shells was called with
    counts,           \* edge_counts of the nodes of input
    nodes,            \* local nodes: what is left of the list
    shells,           \* local shells
    nodes_per_shell,  \* local nodes_per_shell
    i,                \* loop index of enumerate(shells, start=1)
    num_nodes_log,    \* num_nodes computed in each iteration so far
    \* add_subset
    metacyc_df,       \* the category table, a list of rows
    root,             \* argument root
    col,              \* argument col
    pwys,             \* argument pwys, a list of pathway ids
    df,               \* local df: the grouped rows, by pathway
    next_p,           \* place in pwys of the pathway the loop handles next
    dg,               \* local dg: the directed graph being built
    \* network notebook
    metacyc_graph,    \* the pathway-graph table, a list of rows
    core_pwys, deg_pwys, syn_pwys,
    core_graph_df, syn_graph_df, deg_graph_df,
    core_pwy_singles, syn_pwy_singles, deg_pwy_singles,
    edge_counts,
    core_graph, syn_graph, deg_graph,
    G,
    \* taxonomy plots
    data,                 \* global data: the merged table, a list of ORF rows
    rank_select_options,  \* rank_select.options
    rank_select_value,    \* rank_select.value
    taxa_select_options,  \* taxa_select.options
    unc_radio_value,      \* unc_radio.value
    out                   \* the last call of a plot function and what it did

shellVars == <<py, num_shells, input, counts, nodes, shells, nodes_per_shell, i,
               num_nodes_log>>

treeVars == <<metacyc_df, root, col, pwys, df, next_p, dg>>

netVars == <<metacyc_graph, core_pwys, deg_pwys, syn_pwys,
             core_graph_df, syn_graph_df, deg_graph_df,
             core_pwy_singles, syn_pwy_singles, deg_pwy_singles,
             edge_counts, core_graph, syn_graph, deg_graph, G>>

plotVars == <<data, rank_select_options, rank_select_value, taxa_select_options,
              unc_radio_value, out>>

vars == <<pc, shellVars, treeVars, netVars, plotVars>>

\* ------------------------------------------------------------- helpers
Elems(s) == {s[a] : a \in 1..Len(s)}
Min(a, b) == IF a < b THEN a ELSE b
Max(a, b) == IF a > b THEN a ELSE b

\* np.round(a/b) for a >= 0, b > 0: round to nearest, ties to the even integer.
\* The quotient is taken exactly; the double-precision products of make_shells
\* round to the same integers for the list lengths and shell numbers modelled.
Round(a, b) ==
    LET q == a \div b
        r == a % b
    IN  IF 2 * r < b THEN q
        ELSE IF 2 * r > b THEN q + 1
        ELSE IF q % 2 = 0 THEN q ELSE q + 1

\* total_nodes/num_shells followed by np.round: true division under Python 3,
\* integer (floor) division under Python 2.
NodesPerShell(v, total, k) ==
    IF v = 3 THEN Round(total, k) ELSE total \div k

\* Bug variant of FromInner: the whole target count comes from the inner shell.
FromInnerWhole(n, j) == IF j = 1 THEN 0 ELSE n
\* from_inner of iteration j
FromInner(n, j) == IF j = 1 THEN 0 ELSE Round(n * (j - 1), j)

\* to_outer of iteration j
ToOuter(n, j) == Round(n * j, j + 1)

\* Bug variant of NumNodes: the two transfers carry the wrong signs.
NumNodesSwapped(n, j) == n - FromInner(n, j) + ToOuter(n, j)
\* num_nodes = int(from_inner + this_shell - to_outer)
NumNodes(n, j) == FromInner(n, j) + n - ToOuter(n, j)

\* Python slices s[:k] and s[k:], k of either sign.
Cut(s, k) == IF k >= 0 THEN Min(k, Len(s)) ELSE Max(0, Len(s) + k)
\* Bug variant of SliceTo: the slice is taken from the end of the list.
SliceToFromEnd(s, k) == SubSeq(s, Len(s) - Cut(s, k) + 1, Len(s))
SliceTo(s, k) == SubSeq(s, 1, Cut(s, k))
\* Bug variant of SliceFrom: the nodes a shell took stay in the list.
SliceFromKeepsAll(s, k) == s
SliceFrom(s, k) == SubSeq(s, Cut(s, k) + 1, Len(s))

\* The lists the shell-layout cell builds: the nodes named by their place in
\* the order of decreasing edge_counts.
SortedCounts(t) ==
    {[a \in 1..t |-> Cardinality({v \in 1..MaxCount : h[v] >= a})] :
        h \in [1..MaxCount -> 0..t]}

\* ------------------------------------------------- the category table
\* Cell values are strings, written as sequences of characters (a name counts
\* as one character); a missing cell (NaN) is the empty sequence. The names of
\* the table hold no "|": the only "|" of a node name is the one before its
\* level.
NaN == <<>>
A == <<"A">>
B == <<"B">>
Q == <<"Q">>
Core == <<"Generation of Precursor Metabolites and Energy">>
Syn == <<"Biosynthesis">>
Deg == <<"Degradation/Utilization/Assimilation">>
Pathways == {<<"P1">>, <<"P2">>}

\* Category2 .. Category7 are walked, Parent is level 8.
FirstLevel == 2
LastLevel == 7
ParentLevel == 8
Levels == FirstLevel..LastLevel

\* The category columns of a row: A, B or missing at level 2; levels 3 and 7
\* either both missing or A and B; the levels in between missing.
CatPaths ==
    {[l \in Levels |-> IF l = 2 THEN x
                       ELSE IF l = 3 THEN y
                       ELSE IF l = 7 /\ y # NaN THEN B
                       ELSE NaN] :
        x \in {A, B, NaN}, y \in {A, NaN}}

\* The Name column holds the common name of the row's pathway.
NameOf(p) == <<"name of">> \o p

\* Rows of the category the call is about, and one row of another category
\* for each pathway.
Row(p, c1, c, par) ==
    [Pathway |-> p, Category1 |-> c1, Category2 |-> c[2], Category3 |-> c[3],
     Category4 |-> c[4], Category5 |-> c[5], Category6 |-> c[6], Category7 |-> c[7],
     Parent |-> par, Name |-> NameOf(p)]

Rows ==
    {Row(p, Core, c, par) : p \in Pathways, c \in CatPaths, par \in {Q, NaN}}
    \cup
    {Row(p, Syn, [l \in Levels |-> IF l = 2 THEN B ELSE NaN], B) : p \in Pathways}

Tables == UNION {[1..n -> Rows] : n \in 0..MaxRows}

\* The lists a set can be put in by list(set(...)).
ListsOf(S) == {s \in [1..Cardinality(S) -> S] : \A a, b \in 1..Cardinality(S) : a # b => s[a] # s[b]}

\* ------------------------------------------------------------ strings
\* str(i)
Str(l) == <<"0", "1", "2", "3", "4", "5", "6", "7", "8", "9">>[l + 1]

\* current.split("|")[0]
RECURSIVE Split0(_)
Split0(s) ==
    IF s = <<>> \/ Head(s) = "|" THEN <<>> ELSE <<Head(s)>> \o Split0(Tail(s))

\* Bug variant of LevelName: the level suffix is left out.
LevelNameNoSuffix(current, l) == Split0(current)
\* current.split("|")[0]+"|"+str(i)
LevelName(current, l) == Split0(current) \o <<"|", Str(l)>>

\* ----------------------------------------------------- nx.DiGraph
EmptyGraph == [node |-> {}, edge |-> {}, attr |-> <<>>]

\* Bug variant of AddEdge: a node keeps one parent, the one added last.
AddEdgeOneParent(g, u, v) ==
    [node |-> g.node \cup {u, v},
     edge |-> {e \in g.edge : e[2] # v} \cup {<<u, v>>},
     attr |-> [n \in g.node \cup {u, v} |-> IF n \in g.node THEN g.attr[n] ELSE <<>>]]
\* DiGraph.add_edge(u, v): the edge, and its ends as nodes where new.
AddEdge(g, u, v) ==
    [node |-> g.node \cup {u, v},
     edge |-> g.edge \cup {<<u, v>>},
     attr |-> [n \in g.node \cup {u, v} |-> IF n \in g.node THEN g.attr[n] ELSE <<>>]]

\* dg.node[n][key] = val
SetAttr(g, n, key, val) ==
    [g EXCEPT !.attr[n] =
        [k \in (DOMAIN @) \cup {key} |-> IF k = key THEN val ELSE @[k]]]

\* ------------------------------------------------- pandas selections
\* Bug variant of FirstValid: a column without a value gets a name.
RECURSIVE FirstValidOrName(_)
FirstValidOrName(cells) ==
    IF cells = <<>> THEN Q
    ELSE IF Head(cells) # NaN THEN Head(cells)
    ELSE FirstValidOrName(Tail(cells))
\* First non-missing cell of a column, as GroupBy.first() takes it.
RECURSIVE FirstValid(_)
FirstValid(cells) ==
    IF cells = <<>> THEN NaN
    ELSE IF Head(cells) # NaN THEN Head(cells)
    ELSE FirstValid(Tail(cells))

\* The cells of column c in a list of rows.
Column(rows, c) == [a \in 1..Len(rows) |-> rows[a][c]]

\* "Category"+str(i)
CatCol(l) ==
    <<"Category1", "Category2", "Category3", "Category4", "Category5", "Category6",
      "Category7">>[l]

\* Line 171: the columns kept.
KeptColumns == {CatCol(l) : l \in 1..LastLevel} \cup {"Parent", "Name"}

\* Lines 169-171: the rows of root for the pathways in ps, grouped by
\* pathway, the first non-missing cell of every column kept.
GroupFirst(t, rt, ps) ==
    LET sel == SelectSeq(t, LAMBDA x : x.Category1 = rt /\ x.Pathway \in ps)
        of(q) == SelectSeq(sel, LAMBDA x : x.Pathway = q)
    IN  [q \in {sel[a].Pathway : a \in 1..Len(sel)} |->
            [c \in KeptColumns |-> FirstValid(Column(of(q), c))]]

\* Lines 176-188 from level l on: the graph and the last node reached.
RECURSIVE WalkLevels(_, _, _, _, _)
WalkLevels(g, r, c, previous, l) ==
    IF l > LastLevel THEN [g |-> g, previous |-> previous]
    ELSE LET cell == r[CatCol(l)]
             current == LevelName(IF cell = NaN THEN previous ELSE cell, l)
             g1 == AddEdge(g, previous, current)
             g2 == SetAttr(g1, current, "col", c)
             g3 == SetAttr(g2, previous, "col", c)
         IN  WalkLevels(g3, r, c, current, l + 1)

\* Bug variant of AddLeaf: the pathway hangs from the last category node
\* instead of the parent node.
AddLeafFromPrevious(g, r, c, previous, p) ==
    LET current == LevelName(r.Parent, ParentLevel)
        g1 == SetAttr(SetAttr(AddEdge(g, previous, current), current, "col", c),
                      previous, "col", c)
        g2 == SetAttr(AddEdge(g1, previous, p), p, "col", c)
    IN  SetAttr(g2, p, "Name", r.Name)
\* Lines 192-201: the parent node and the pathway node, for a row with a Parent.
AddLeaf(g, r, c, previous, p) ==
    LET current == LevelName(r.Parent, ParentLevel)
        g1 == SetAttr(SetAttr(AddEdge(g, previous, current), current, "col", c),
                      previous, "col", c)
        g2 == SetAttr(AddEdge(g1, current, p), p, "col", c)
    IN  SetAttr(g2, p, "Name", r.Name)

TreeIdle ==
    /\ metacyc_df = <<>>
    /\ root = <<>>
    /\ col = ""
    /\ pwys = <<>>
    /\ df = <<>>
    /\ next_p = 0
    /\ dg = EmptyGraph

\* ------------------------------------------------------------ nx.Graph
\* An undirected graph: an edge is the set of its two ends, with its
\* attributes; a node has its attributes.
EmptyNet == [node |-> <<>>, edge |-> <<>>]

\* One more key in an attribute dictionary.
WithKey(dict, key, val) ==
    [k \in (DOMAIN dict) \cup {key} |-> IF k = key THEN val ELSE dict[k]]

\* Graph.add_nodes_from(ns)
AddNodesFrom(g, ns) ==
    [g EXCEPT !.node = [n \in (DOMAIN g.node) \cup ns |->
                           IF n \in DOMAIN g.node THEN g.node[n] ELSE <<>>]]

\* Graph.add_edge(u, v) followed by g.edge[u][v]['CPD'] = cpd
AddCpdEdge(g, u, v, cpd) ==
    LET g1 == AddNodesFrom(g, {u, v})
    IN  [g1 EXCEPT !.edge = [e \in (DOMAIN g.edge) \cup {{u, v}} |->
                                IF e = {u, v}
                                THEN WithKey(IF e \in DOMAIN g.edge THEN g.edge[e] ELSE <<>>,
                                             "CPD", cpd)
                                ELSE g.edge[e]]]

\* The rows of table t with Node1 in p1 and Node2 in p2.
RowsBetween(t, p1, p2) == SelectSeq(t, LAMBDA x : x.Node1 \in p1 /\ x.Node2 \in p2)

\* nx.from_pandas_dataframe(t, source="Node1", target="Node2", edge_attr="CPD")
RECURSIVE AddRows(_, _)
AddRows(g, t) ==
    IF t = <<>> THEN g
    ELSE AddRows(AddCpdEdge(g, Head(t).Node1, Head(t).Node2, Head(t).CPD), Tail(t))

FromPandasDataframe(t) == AddRows(EmptyNet, t)

\* nx.compose(g, h): the nodes and edges of both, h's attributes first.
Compose(g, h) ==
    [node |-> [n \in (DOMAIN g.node) \cup (DOMAIN h.node) |->
                  IF n \in DOMAIN h.node THEN h.node[n] ELSE g.node[n]],
     edge |-> [e \in (DOMAIN g.edge) \cup (DOMAIN h.edge) |->
                  IF e \in DOMAIN h.edge THEN h.edge[e] ELSE g.edge[e]]]

\* Bug variant of EdgeCounts: the rows are grouped by their other end.
EdgeCountsByNode2(t) ==
    [n \in {t[a].Node2 : a \in 1..Len(t)} |->
        Cardinality({a \in 1..Len(t) : t[a].Node2 = n})]
\* metacyc_graph.groupby("Node1").count().ix[:,0]: for every Node1 the number
\* of its rows (all cells of a row are present).
EdgeCounts(t) ==
    [n \in {t[a].Node1 : a \in 1..Len(t)} |->
        Cardinality({a \in 1..Len(t) : t[a].Node1 = n})]

\* Lines 217-218: d[n], or 0 on KeyError.
NodeWeight(d, n) == IF n \in DOMAIN d THEN d[n] ELSE 0

\* assign_node_weights(g, d)
AssignNodeWeights(g, d) ==
    [g EXCEPT !.node = [n \in DOMAIN g.node |-> WithKey(g.node[n], "weight", NodeWeight(d, n))]]

\* str(df.loc[i,"CPD"]) of a compound id, a string.
StrOf(v) == v

\* add_intergraph_edges(g, p1, p2, df)
AddIntergraphEdges(g, p1, p2, t) ==
    LET sel == RowsBetween(t, p1, p2)
        strs == [a \in 1..Len(sel) |-> [sel[a] EXCEPT !.CPD = StrOf(@)]]
    IN  AddRows(g, strs)

\* Bug variant of PathwaysOf: rows of every category count.
PathwaysOfAny(t, cats) == {t[a].Pathway : a \in 1..Len(t)}
\* set(metacyc_df.loc[metacyc_df.Category1.isin(cats),"Pathway"])
PathwaysOf(t, cats) == {t[a].Pathway : a \in {b \in 1..Len(t) : t[b].Category1 \in cats}}

\* Bug variant of SubgraphRows: one end in the subset is enough.
SubgraphRowsEitherEnd(t, ps) == SelectSeq(t, LAMBDA x : x.Node1 \in ps \/ x.Node2 \in ps)
\* metacyc_graph.loc[(Node1.isin(ps)) & (Node2.isin(ps))]
SubgraphRows(t, ps) == RowsBetween(t, ps, ps)

\* ------------------------------------------ tables of the network notebook
Other == <<"Other">>
NoCategories == [l \in Levels |-> NaN]

\* The pathways of the network runs.
NetPathways == Pathways \cup {<<"P3">>}

\* The kinds of rows of metacyc_df, in a fixed order: P1 and P2 in every
\* first-level category, P3 in the core category. The cells test membership
\* only, so a table is given by the kinds of rows it holds.
DfRowKinds ==
    <<Row(<<"P1">>, Core, NoCategories, Q), Row(<<"P1">>, Deg, NoCategories, Q),
      Row(<<"P1">>, Syn, NoCategories, Q), Row(<<"P1">>, Other, NoCategories, Q),
      Row(<<"P2">>, Core, NoCategories, Q), Row(<<"P2">>, Deg, NoCategories, Q),
      Row(<<"P2">>, Syn, NoCategories, Q), Row(<<"P2">>, Other, NoCategories, Q),
      Row(<<"P3">>, Core, NoCategories, Q)>>

\* The list of the elements of s at the places in S, in order.
RECURSIVE Pick(_, _)
Pick(s, S) ==
    IF S = {} THEN <<>>
    ELSE LET a == CHOOSE x \in S : \A y \in S : x <= y
         IN  <<s[a]>> \o Pick(s, S \ {a})

DfTables ==
    {Pick(DfRowKinds, S) : S \in {T \in SUBSET (1..Len(DfRowKinds)) : Cardinality(T) <= MaxDfRows}}

Compounds == {"x", "y"}

\* A row links two different pathways by a compound; the second compound
\* occurs on the links from P1 to P2.
GraphRows ==
    {x \in [Node1 : NetPathways, Node2 : NetPathways, CPD : Compounds] :
        /\ x.Node1 # x.Node2
        /\ x.CPD = "y" => (x.Node1 = <<"P1">> /\ x.Node2 = <<"P2">>)}

GraphTables == UNION {[1..n -> GraphRows] : n \in 0..MaxGraphRows}

NetIdle ==
    /\ metacyc_graph = <<>>
    /\ core_pwys = {} /\ deg_pwys = {} /\ syn_pwys = {}
    /\ core_graph_df = <<>> /\ syn_graph_df = <<>> /\ deg_graph_df = <<>>
    /\ core_pwy_singles = {} /\ syn_pwy_singles = {} /\ deg_pwy_singles = {}
    /\ edge_counts = <<>>
    /\ core_graph = EmptyNet /\ syn_graph = EmptyNet /\ deg_graph = EmptyNet
    /\ G = EmptyNet

\* None
None == "None"

\* No plot function was called yet.
NoCall == [fn |-> None]

PlotIdle ==
    /\ data = <<>>
    /\ rank_select_options = <<>>
    /\ rank_select_value = None
    /\ taxa_select_options = <<>>
    /\ unc_radio_value = "exclude"
    /\ out = NoCall

\* The variables of a notebook part that is not running.
ShellsIdle ==
    /\ py = 3
    /\ num_shells = 0
    /\ input = <<>>
    /\ counts = <<>>
    /\ nodes = <<>>
    /\ shells = <<>>
    /\ nodes_per_shell = 0
    /\ i = 0
    /\ num_nodes_log = <<>>

\* --------------------------------------------------------- make_shells
ShellsInit ==
    /\ pc = "call"
    /\ py \in {2, 3}
    /\ num_shells \in 0..MaxShells
    /\ \E t \in 0..MaxNodes :
          /\ input = [a \in 1..t |-> a]
          /\ counts \in SortedCounts(t)
    /\ nodes = input
    /\ shells = <<>>
    /\ nodes_per_shell = 0
    /\ i = 0
    /\ num_nodes_log = <<>>
    /\ TreeIdle
    /\ NetIdle
    /\ PlotIdle

\* Lines 191-195: the statements before the loop. Dividing by num_shells = 0
\* raises ZeroDivisionError.
MakeShellsEnter ==
    /\ pc = "call"
    /\ IF num_shells = 0
       THEN /\ pc' = "error"
            /\ UNCHANGED <<shells, nodes_per_shell, i>>
       ELSE /\ pc' = "loop"
            /\ shells' = [j \in 1..num_shells |-> <<>>]
            /\ nodes_per_shell' = NodesPerShell(py, Len(nodes), num_shells)
            /\ i' = 1
    /\ UNCHANGED plotVars
    /\ UNCHANGED <<py, num_shells, input, counts, nodes, num_nodes_log, treeVars, netVars>>

\* Lines 196-211: one iteration of the loop.
MakeShellsIter ==
    /\ pc = "loop"
    /\ i <= num_shells
    /\ LET num_nodes == NumNodes(nodes_per_shell, i)
       IN  /\ num_nodes_log' = Append(num_nodes_log, num_nodes)
           /\ IF i = num_shells
              THEN /\ shells' = [shells EXCEPT ![i] = nodes]
                   /\ nodes' = nodes
              ELSE /\ shells' = [shells EXCEPT ![i] = SliceTo(nodes, num_nodes)]
                   /\ nodes' = SliceFrom(nodes, num_nodes)
    /\ i' = i + 1
    /\ UNCHANGED plotVars
    /\ UNCHANGED <<pc, py, num_shells, input, counts, nodes_per_shell, treeVars, netVars>>

\* Line 212: return shells.
MakeShellsReturn ==
    /\ pc = "loop"
    /\ i > num_shells
    /\ pc' = "done"
    /\ UNCHANGED plotVars
    /\ UNCHANGED <<shellVars, treeVars, netVars>>

ShellsNext == MakeShellsEnter \/ MakeShellsIter \/ MakeShellsReturn

SpecShells == ShellsInit /\ [][ShellsNext]_vars

\* ------------------------------------------------- claims on make_shells
RECURSIVE Flatten(_)
Flatten(ss) == IF ss = <<>> THEN <<>> ELSE Head(ss) \o Flatten(Tail(ss))

ShellsReturned == pc = "done" /\ num_shells >= 1

\* C1: make_shells(num_shells, nodes) with num_shells >= 1 returns exactly
\* num_shells shells whose concatenation, innermost first, is the input list
\* in its order (no node lost or duplicated); the last shell is what is left
\* after the inner shells, and for num_shells = 1 it is the whole list.
C1_ShellsPartition ==
    ShellsReturned =>
        /\ Len(shells) = num_shells
        /\ Flatten(shells) = input
        /\ shells[num_shells] =
              SliceFrom(input, Len(Flatten(SubSeq(shells, 1, num_shells - 1))))
        /\ (num_shells = 1 => shells[1] = input)

C1_Witness ==
    /\ ShellsReturned
    /\ num_shells >= 3
    /\ Len(input) >= 6
    /\ Cardinality({a \in 1..num_shells : shells[a] # <<>>}) >= 3

\* C2: with the input sorted by decreasing connection count, every node of an
\* inner shell precedes every node of an outer shell in the input order and
\* has a connection count at least as large.
C2_InnerShellsMoreConnected ==
    ShellsReturned =>
        \A a, b \in 1..num_shells :
            a < b =>
                \A x \in Elems(shells[a]), y \in Elems(shells[b]) :
                    x < y /\ counts[x] >= counts[y]

C2_Witness ==
    /\ ShellsReturned
    /\ \E a, b \in 1..num_shells :
          /\ a < b
          /\ \E x \in Elems(shells[a]), y \in Elems(shells[b]) :
                counts[x] > counts[y]

\* C3 as stated: shell sizes never decrease from the innermost shell to the
\* outermost one.
C3_Original ==
    ShellsReturned =>
        \A a, b \in 1..num_shells :
            a < b => Len(shells[a]) <= Len(shells[b])

\* C3 as amended: shell sizes are non-decreasing only up to rounding. Every
\* shell before the last holds its computed count num_nodes, or all remaining
\* nodes when fewer are left, and for two shells a < b before the last, shell a
\* holds at most one node more than the count computed for shell b. The last
\* shell holds the remainder, whatever its size.
C3_SizesNonDecreasingUpToRounding ==
    ShellsReturned =>
        /\ \A a \in 1..(num_shells - 1) :
              Len(shells[a]) =
                Min(num_nodes_log[a],
                    Len(input) - Len(Flatten(SubSeq(shells, 1, a - 1))))
        /\ \A a, b \in 1..(num_shells - 1) :
              a < b => Len(shells[a]) <= num_nodes_log[b] + 1

C3_Witness ==
    /\ ShellsReturned
    /\ \E a, b \in 1..(num_shells - 1) :
          a < b /\ Len(shells[a]) = num_nodes_log[b] + 1

\* ----------------------------------------------------------- add_subset
\* dg_c = add_subset(core[0], core_pwys, metacyc_df, 'r'), with any list of
\* pathways for pwys.
TreeInit ==
    /\ pc = "call"
    /\ ShellsIdle
    /\ NetIdle
    /\ PlotIdle
    /\ metacyc_df \in Tables
    /\ root = Core
    /\ col = "r"
    /\ \E S \in SUBSET Pathways : pwys \in ListsOf(S)
    /\ df = <<>>
    /\ next_p = 1
    /\ dg = EmptyGraph

\* Lines 168-171.
AddSubsetEnter ==
    /\ pc = "call"
    /\ pc' = "loop"
    /\ dg' = EmptyGraph
    /\ df' = GroupFirst(metacyc_df, root, Elems(pwys))
    /\ UNCHANGED plotVars
    /\ UNCHANGED <<shellVars, netVars, metacyc_df, root, col, pwys, next_p>>

\* Lines 173-201: one pathway of the loop. df.loc[p] raises KeyError for a
\* pathway without a row, and a missing Parent raises AttributeError at
\* line 192, after the category levels were walked.
AddSubsetIter ==
    /\ pc = "loop"
    /\ next_p <= Len(pwys)
    /\ LET p == pwys[next_p]
       IN  IF p \notin DOMAIN df
           THEN pc' = "error" /\ dg' = dg
           ELSE LET r == df[p]
                    w == WalkLevels(dg, r, col, root, FirstLevel)
                IN  IF r.Parent = NaN
                    THEN pc' = "error" /\ dg' = w.g
                    ELSE pc' = pc /\ dg' = AddLeaf(w.g, r, col, w.previous, p)
    /\ next_p' = next_p + 1
    /\ UNCHANGED plotVars
    /\ UNCHANGED <<shellVars, netVars, metacyc_df, root, col, pwys, df>>

\* Line 202: return dg.
AddSubsetReturn ==
    /\ pc = "loop"
    /\ next_p > Len(pwys)
    /\ pc' = "done"
    /\ UNCHANGED plotVars
    /\ UNCHANGED <<shellVars, treeVars, netVars>>

TreeNext == AddSubsetEnter \/ AddSubsetIter \/ AddSubsetReturn

SpecTree == TreeInit /\ [][TreeNext]_vars

\* ----------------------------------------------------- network notebook
\* The cells of the notebook, run in order on tables read from the files.
\* The shell-layout cell between InitGraphs and ComposeAll sets only the
\* 'pos' attribute of the nodes, which is left out.
NetInit ==
    /\ pc = "subsets"
    /\ ShellsIdle
    /\ PlotIdle
    /\ root = <<>> /\ col = "" /\ pwys = <<>> /\ df = <<>> /\ next_p = 0 /\ dg = EmptyGraph
    /\ metacyc_df \in DfTables
    /\ metacyc_graph \in GraphTables
    /\ core_pwys = {} /\ deg_pwys = {} /\ syn_pwys = {}
    /\ core_graph_df = <<>> /\ syn_graph_df = <<>> /\ deg_graph_df = <<>>
    /\ core_pwy_singles = {} /\ syn_pwy_singles = {} /\ deg_pwy_singles = {}
    /\ edge_counts = <<>>
    /\ core_graph = EmptyNet /\ syn_graph = EmptyNet /\ deg_graph = EmptyNet
    /\ G = EmptyNet

\* Lines 113-121.
MakeSubsets ==
    /\ pc = "subsets"
    /\ pc' = "graph tables"
    /\ core_pwys' = PathwaysOf(metacyc_df, {Core})
    /\ deg_pwys' = PathwaysOf(metacyc_df, {Deg}) \ core_pwys'
    /\ syn_pwys' = PathwaysOf(metacyc_df, {Syn}) \ (core_pwys' \cup deg_pwys')
    /\ UNCHANGED plotVars
    /\ UNCHANGED <<shellVars, treeVars, metacyc_graph,
                   core_graph_df, syn_graph_df, deg_graph_df,
                   core_pwy_singles, syn_pwy_singles, deg_pwy_singles,
                   edge_counts, core_graph, syn_graph, deg_graph, G>>

\* Lines 139-144.
MakeGraphTables ==
    /\ pc = "graph tables"
    /\ pc' = "edge counts"
    /\ core_graph_df' = SubgraphRows(metacyc_graph, core_pwys)
    /\ core_pwy_singles' = core_pwys \ {core_graph_df'[a].Node1 : a \in 1..Len(core_graph_df')}
    /\ syn_graph_df' = SubgraphRows(metacyc_graph, syn_pwys)
    /\ syn_pwy_singles' = syn_pwys \ {syn_graph_df'[a].Node1 : a \in 1..Len(syn_graph_df')}
    /\ deg_graph_df' = SubgraphRows(metacyc_graph, deg_pwys)
    /\ deg_pwy_singles' = deg_pwys \ {deg_graph_df'[a].Node1 : a \in 1..Len(deg_graph_df')}
    /\ UNCHANGED plotVars
    /\ UNCHANGED <<shellVars, treeVars, metacyc_graph, core_pwys, deg_pwys, syn_pwys,
                   edge_counts, core_graph, syn_graph, deg_graph, G>>

\* Lines 163-164 (the order of the counts is not kept).
CountEdges ==
    /\ pc = "edge counts"
    /\ pc' = "graphs"
    /\ edge_counts' = EdgeCounts(metacyc_graph)
    /\ UNCHANGED plotVars
    /\ UNCHANGED <<shellVars, treeVars, metacyc_graph, core_pwys, deg_pwys, syn_pwys,
                   core_graph_df, syn_graph_df, deg_graph_df,
                   core_pwy_singles, syn_pwy_singles, deg_pwy_singles,
                   core_graph, syn_graph, deg_graph, G>>

\* Lines 257-264.
InitGraphs ==
    /\ pc = "graphs"
    /\ pc' = "compose"
    /\ core_graph' = AddNodesFrom(FromPandasDataframe(core_graph_df), core_pwy_singles)
    /\ deg_graph' = AddNodesFrom(FromPandasDataframe(deg_graph_df), deg_pwy_singles)
    /\ syn_graph' = AddNodesFrom(FromPandasDataframe(syn_graph_df), syn_pwy_singles)
    /\ UNCHANGED plotVars
    /\ UNCHANGED <<shellVars, treeVars, metacyc_graph, core_pwys, deg_pwys, syn_pwys,
                   core_graph_df, syn_graph_df, deg_graph_df,
                   core_pwy_singles, syn_pwy_singles, deg_pwy_singles,
                   edge_counts, G>>

\* Line 325: G = nx.compose_all([core_graph,syn_graph,deg_graph]).
ComposeAll ==
    /\ pc = "compose"
    /\ pc' = "weights"
    /\ G' = Compose(Compose(core_graph, syn_graph), deg_graph)
    /\ UNCHANGED plotVars
    /\ UNCHANGED <<shellVars, treeVars, metacyc_graph, core_pwys, deg_pwys, syn_pwys,
                   core_graph_df, syn_graph_df, deg_graph_df,
                   core_pwy_singles, syn_pwy_singles, deg_pwy_singles,
                   edge_counts, core_graph, syn_graph, deg_graph>>

\* Line 328: G = assign_node_weights(G,edge_counts).
AssignWeights ==
    /\ pc = "weights"
    /\ pc' = "core-syn"
    /\ G' = AssignNodeWeights(G, edge_counts)
    /\ UNCHANGED plotVars
    /\ UNCHANGED <<shellVars, treeVars, metacyc_graph, core_pwys, deg_pwys, syn_pwys,
                   core_graph_df, syn_graph_df, deg_graph_df,
                   core_pwy_singles, syn_pwy_singles, deg_pwy_singles,
                   edge_counts, core_graph, syn_graph, deg_graph>>

\* Lines 331-333: the three calls of add_intergraph_edges, one a step.
AddFinalEdges ==
    /\ pc \in {"core-syn", "core-deg", "syn-deg"}
    /\ pc' = IF pc = "core-syn" THEN "core-deg"
             ELSE IF pc = "core-deg" THEN "syn-deg" ELSE "final"
    /\ G' = IF pc = "core-syn" THEN AddIntergraphEdges(G, core_pwys, syn_pwys, metacyc_graph)
            ELSE IF pc = "core-deg" THEN AddIntergraphEdges(G, core_pwys, deg_pwys, metacyc_graph)
            ELSE AddIntergraphEdges(G, syn_pwys, deg_pwys, metacyc_graph)
    /\ UNCHANGED plotVars
    /\ UNCHANGED <<shellVars, treeVars, metacyc_graph, core_pwys, deg_pwys, syn_pwys,
                   core_graph_df, syn_graph_df, deg_graph_df,
                   core_pwy_singles, syn_pwy_singles, deg_pwy_singles,
                   edge_counts, core_graph, syn_graph, deg_graph>>

NetNext ==
    \/ MakeSubsets
    \/ MakeGraphTables
    \/ CountEdges
    \/ InitGraphs
    \/ ComposeAll
    \/ AssignWeights
    \/ AddFinalEdges

SpecNet == NetInit /\ [][NetNext]_vars

\* -------------------------------------------------- claims on add_subset
Succ(g, S) == {e[2] : e \in {d \in g.edge : d[1] \in S}}

\* The nodes reached from S along edges, S included.
RECURSIVE ReachFrom(_, _)
ReachFrom(g, S) ==
    LET T == S \cup Succ(g, S)
    IN  IF T = S THEN S ELSE ReachFrom(g, T)

InDegree(g, n) == Cardinality({e \in g.edge : e[2] = n})

\* The cell of pathway p in column f of the table: the first non-missing one
\* among p's rows of the root category, missing if there is none.
CellOf(p, c) ==
    LET at == {a \in 1..Len(metacyc_df) :
                  /\ metacyc_df[a].Category1 = root
                  /\ metacyc_df[a].Pathway = p
                  /\ metacyc_df[a][c] # NaN}
    IN  IF at = {} THEN NaN
        ELSE metacyc_df[CHOOSE a \in at : \A b \in at : a <= b][c]

LevelColumn(l) ==
    IF l = 2 THEN "Category2" ELSE IF l = 3 THEN "Category3"
    ELSE IF l = 4 THEN "Category4" ELSE IF l = 5 THEN "Category5"
    ELSE IF l = 6 THEN "Category6" ELSE "Category7"

\* The name pathway p has at level l: its category of that level, or where
\* that is missing the name of the level before; the root at level 1.
RECURSIVE NameAt(_, _)
NameAt(p, l) ==
    IF l = 1 THEN root
    ELSE IF l = ParentLevel THEN CellOf(p, "Parent")
    ELSE IF CellOf(p, LevelColumn(l)) # NaN THEN CellOf(p, LevelColumn(l))
    ELSE NameAt(p, l - 1)

Tag(l) == <<"1", "2", "3", "4", "5", "6", "7", "8">>[l]

\* The node name|level of pathway p at level l.
NodeAt(p, l) == IF l = 1 THEN root ELSE NameAt(p, l) \o <<"|", Tag(l)>>

IsLevelNode(n, l) == Len(n) >= 2 /\ n[Len(n) - 1] = "|" /\ n[Len(n)] = Tag(l)

\* root, the eight level nodes of p, and p.
PathOf(p) == [l \in 1..(ParentLevel + 1) |-> IF l <= ParentLevel THEN NodeAt(p, l) ELSE p]

TreeReturned == pc = "done" /\ root # NaN

\* C4: add_subset returns a directed tree rooted at root: root has no incoming
\* edge, every other node has exactly one, there is no cycle and every node is
\* reachable from root, whatever the category table.
C4_DirectedTree ==
    TreeReturned =>
        /\ InDegree(dg, root) = 0
        /\ \A n \in dg.node \ {root} : InDegree(dg, n) = 1
        /\ \A n \in dg.node : n \notin ReachFrom(dg, Succ(dg, {n}))
        /\ \A n \in dg.node : n \in ReachFrom(dg, {root})

\* C5: for every pathway p of pwys the returned graph holds the path
\* root -> Category2|2 -> ... -> Category7|7 -> Parent|8 -> p of 8 edges (a
\* missing category named after the level before it); p has no outgoing edge
\* and carries the Name of its row; every node of the path carries col.
C5_PathToEveryPathway ==
    TreeReturned =>
        \A a \in 1..Len(pwys) :
            LET p == pwys[a]
                path == PathOf(p)
            IN  /\ Len(path) = 9
                /\ \A l \in 1..8 : <<path[l], path[l + 1]>> \in dg.edge
                /\ \A l \in 1..9 :
                      /\ path[l] \in dg.node
                      /\ "col" \in DOMAIN dg.attr[path[l]]
                      /\ dg.attr[path[l]]["col"] = col
                /\ Succ(dg, {p}) = {}
                /\ "Name" \in DOMAIN dg.attr[p]
                /\ dg.attr[p]["Name"] = CellOf(p, "Name")

C5_Witness ==
    /\ TreeReturned
    /\ Len(pwys) = 2
    /\ Len(metacyc_df) >= 2
    /\ \E a, b \in 1..2 :
          /\ CellOf(pwys[a], "Category2") = NaN
          /\ CellOf(pwys[b], "Category7") = B
    /\ Cardinality(dg.edge) >= 12

SameCategories(p, q) ==
    /\ \A l \in Levels : CellOf(p, LevelColumn(l)) = CellOf(q, LevelColumn(l))
    /\ CellOf(p, "Parent") = CellOf(q, "Parent")

\* C6, the graph returned: the nodes are the root, one node name|level for
\* every name the pathways have at a level, and the pathways; the edges are
\* those of the pathways' paths, each once.
C6_OneNodePerNameAndLevel ==
    TreeReturned /\ pwys # <<>> =>
        /\ \A l \in FirstLevel..ParentLevel :
              {n \in dg.node : IsLevelNode(n, l)} = {NodeAt(pwys[a], l) : a \in 1..Len(pwys)}
        /\ dg.node = {PathOf(pwys[a])[l] : a \in 1..Len(pwys), l \in 1..9}
        /\ dg.edge = {<<PathOf(pwys[a])[l], PathOf(pwys[a])[l + 1]>> :
                         a \in 1..Len(pwys), l \in 1..8}

\* C6, the step: a pathway whose categories equal those of a pathway handled
\* before adds its own node and the edge from the parent node, nothing else.
C6_SecondPathwayAddsOnlyLeaf ==
    /\ pc = "loop" /\ pc' = "loop"
    /\ next_p <= Len(pwys) /\ next_p' = next_p + 1
    /\ \E b \in 1..(next_p - 1) : SameCategories(pwys[b], pwys[next_p])
    => /\ dg'.node = dg.node \cup {pwys[next_p]}
       /\ dg'.edge = dg.edge \cup {<<NodeAt(pwys[next_p], ParentLevel), pwys[next_p]>>}

\* C6: add_subset deduplicates path segments: a name at a level yields one
\* node, pathways share the nodes and edges of the levels they agree on, and
\* a second pathway with an identical category row adds only its pathway node
\* and edge.
C6_Deduplicates == [](C6_OneNodePerNameAndLevel) /\ [][C6_SecondPathwayAddsOnlyLeaf]_vars

C6_Witness ==
    /\ TreeReturned
    /\ Len(pwys) = 2
    /\ SameCategories(pwys[1], pwys[2])
    /\ Cardinality(dg.node) = 10
    /\ Cardinality(dg.edge) = 9

\* ------------------------------------------ claims on the network notebook
HasRow(p, c) ==
    \E a \in 1..Len(metacyc_df) : metacyc_df[a].Pathway = p /\ metacyc_df[a].Category1 = c

SubsetsMade == pc \in {"graph tables", "edge counts", "graphs", "compose", "weights",
                       "core-syn", "core-deg", "syn-deg", "final"}

\* C7: the three subsets are pairwise disjoint and follow the priority Core,
\* Degradation, Biosynthesis: a pathway with a Core row is in core_pwys only;
\* else one with a Degradation row is in deg_pwys only; else one with a
\* Biosynthesis row is in syn_pwys; the union is the set of pathways with a row
\* in one of the three categories.
C7_SubsetsByPriority ==
    SubsetsMade =>
        /\ core_pwys \cap deg_pwys = {}
        /\ core_pwys \cap syn_pwys = {}
        /\ deg_pwys \cap syn_pwys = {}
        /\ \A p \in NetPathways :
              /\ p \in core_pwys <=> HasRow(p, Core)
              /\ p \in deg_pwys <=> (HasRow(p, Deg) /\ ~HasRow(p, Core))
              /\ p \in syn_pwys <=> (HasRow(p, Syn) /\ ~HasRow(p, Deg) /\ ~HasRow(p, Core))
        /\ core_pwys \cup deg_pwys \cup syn_pwys =
              {p \in NetPathways : HasRow(p, Core) \/ HasRow(p, Deg) \/ HasRow(p, Syn)}

C7_Witness ==
    /\ SubsetsMade
    /\ \E p, q \in NetPathways :
          /\ HasRow(p, Deg) /\ HasRow(p, Syn) /\ p \in deg_pwys
          /\ HasRow(q, Other) /\ q \notin core_pwys \cup deg_pwys \cup syn_pwys

SubsetsOf(n) ==
    {k \in {"core", "deg", "syn"} :
        n \in (IF k = "core" THEN core_pwys ELSE IF k = "deg" THEN deg_pwys ELSE syn_pwys)}

\* The ends of the row lie in two different subsets.
CrossRow(x) == \E k \in SubsetsOf(x.Node1), m \in SubsetsOf(x.Node2) : k # m

\* C8: after the last add_intergraph_edges call, every row of the
\* pathway-graph table with its two ends in two different subsets, whichever
\* end is Node1, has its edge in G with the row's compound as CPD.
C8_AllCrossRowsBecomeEdges ==
    pc = "final" =>
        \A a \in 1..Len(metacyc_graph) :
            LET x == metacyc_graph[a]
            IN  CrossRow(x) =>
                    /\ {x.Node1, x.Node2} \in DOMAIN G.edge
                    /\ G.edge[{x.Node1, x.Node2}]["CPD"] = x.CPD

EdgesWithin(g, ps) == \A e \in DOMAIN g.edge : e \subseteq ps

\* C9: before add_intergraph_edges runs, every edge of core_graph, syn_graph
\* and deg_graph has both ends in the subgraph's own subset, and the composed
\* graph has no edge with its ends in two different subsets.
C9_NoEdgesBetweenSubgraphs ==
    /\ pc \in {"compose", "weights", "core-syn"} =>
          /\ EdgesWithin(core_graph, core_pwys)
          /\ EdgesWithin(syn_graph, syn_pwys)
          /\ EdgesWithin(deg_graph, deg_pwys)
    /\ pc \in {"weights", "core-syn"} =>
          \A e \in DOMAIN G.edge :
              \A u, v \in e : \A k \in SubsetsOf(u), m \in SubsetsOf(v) : k = m

C9_Witness ==
    /\ pc = "core-syn"
    /\ \E a \in 1..Len(metacyc_graph) : CrossRow(metacyc_graph[a])
    /\ Cardinality(DOMAIN G.node) = 3
    /\ Cardinality(DOMAIN G.edge) = 1

\* C10: in the composed network every node carries a weight equal to the
\* number of rows of the pathway-graph table that have it as Node1, 0 for a
\* node without such a row.
C10_WeightIsNode1RowCount ==
    pc \in {"core-syn", "core-deg", "syn-deg", "final"} =>
        \A n \in DOMAIN G.node :
            /\ "weight" \in DOMAIN G.node[n]
            /\ G.node[n]["weight"] =
                  Cardinality({a \in 1..Len(metacyc_graph) : metacyc_graph[a].Node1 = n})

C10_Witness ==
    /\ pc = "final"
    /\ \E n, m \in DOMAIN G.node :
          /\ G.node[n]["weight"] = 0
          /\ G.node[m]["weight"] = 2
          /\ n \notin DOMAIN edge_counts

\* ------------------------------------------------------ taxonomy plots
\* Strings of the plot notebook are lists of tokens, "" is <<>>.
Ranks == <<"family", "genus">>    \* the columns of a taxonomy file
Samples == <<"s1", "s2">>         \* the columns of a coverage file
Unclassified == "Unclassified"
Formats == {"png", "pdf"}         \* file_type options
Outfiles == {<<>>, <<"plot">>}    \* texts typed into file_box
TopTaxa == 14                     \* top[0:14]

\* "Unclassified" in t
Contains(t, w) == \E a \in 1..Len(t) : t[a] = w

\* The taxonomy files: one row per ORF, ORFs 1..n. Two ORFs share a family,
\* every classified ORF has a genus of its own, and the ORFs in U have no
\* genus: theirs reads "Unclassified." and the family.
Family(k) == <<"f", ToString((k + 1) \div 2)>>
Genus(k, U) == IF k \in U THEN <<Unclassified, ".">> \o Family(k) ELSE <<"g", ToString(k)>>
TaxFile(n, U) == [k \in 1..n |-> [family |-> Family(k), genus |-> Genus(k, U)]]
TaxFiles ==
    {TaxFile(n, U \cap (1..n)) : n \in {1, MaxOrfs - 1, MaxOrfs},
                                 U \in {{}, {MaxOrfs - 1}, {1, 2}}}

\* The coverage files, ORFs 1..MaxOrfs: coverage rising with the ORF number,
\* the first two ORFs level in total, or coverage falling.
CovFile(p) ==
    [k \in 1..MaxOrfs |->
        IF p = 1 THEN [s1 |-> k, s2 |-> IF k <= 2 THEN 3 - k ELSE k]
        ELSE [s1 |-> MaxOrfs + 1 - k, s2 |-> 0]]
CovFiles == {CovFile(p) : p \in 1..2}

\* pd.merge(taxdf, covdf, left_index=True, right_index=True): the ORFs of both.
Merge(taxdf, covdf) ==
    [k \in (DOMAIN taxdf) \cap (DOMAIN covdf) |->
        [c \in Elems(Ranks) \cup Elems(Samples) |->
            IF c \in Elems(Ranks) THEN taxdf[k][c] ELSE covdf[k][c]]]

\* Lines 548-551 of make_plotdata: the tables data can become.
Merged == {Merge(taxdf, covdf) : taxdf \in TaxFiles, covdf \in CovFiles}

\* The first appearances in a list, in order.
RECURSIVE Unique(_)
Unique(s) ==
    IF s = <<>> THEN <<>>
    ELSE LET r == Unique(SubSeq(s, 1, Len(s) - 1))
         IN  IF s[Len(s)] \in Elems(r) THEN r ELSE Append(r, s[Len(s)])

\* list(set(column)): Python fixes no order for it. The model takes the
\* order of first appearance, as it is or turned by one place.
Turns == {0, 1}
SetList(column, h) ==
    LET u == Unique(column)
        n == Len(u)
    IN  [a \in 1..n |-> u[((a - 1 + h) % n) + 1]]

\* Assigning rank_select.options: the value stays when it is still an option,
\* or becomes the first option; newer widget libraries always take the first.
ValueAfterOptions(value, options) ==
    IF options = <<>> THEN {None}
    ELSE {options[1]} \cup ({value} \cap Elems(options))

RECURSIVE SumOver(_, _, _)
SumOver(d, ids, c) ==
    IF ids = {} THEN 0
    ELSE LET k == CHOOSE x \in ids : TRUE
         IN  d[k][c] + SumOver(d, ids \ {k}, c)

\* data.groupby(rank).sum().sum(axis=1): for every taxon of the rank, the
\* coverage of its ORFs added up over all samples.
Abundance(d, rank) ==
    [t \in {d[k][rank] : k \in DOMAIN d} |->
        LET ids == {k \in DOMAIN d : d[k][rank] = t}
        IN  SumOver(d, ids, Samples[1]) + SumOver(d, ids, Samples[2])]

\* list(ab.sort_values(ascending=False).index): the sort fixes no order among
\* equal values.
RECURSIVE SortValues(_)
SortValues(ab) ==
    IF DOMAIN ab = {} THEN {<<>>}
    ELSE LET top == {t \in DOMAIN ab : \A u \in DOMAIN ab : ab[u] <= ab[t]}
         IN  UNION {{<<t>> \o r : r \in SortValues([u \in (DOMAIN ab) \ {t} |-> ab[u]])} :
                    t \in top}

\* Bug variant of TopOptions: the list is cut before the filter.
TopOptionsCutFirst(d, newrank, unc) ==
    {LET cut == SliceTo(top, TopTaxa)
     IN  IF unc = "exclude"
         THEN SelectSeq(cut, LAMBDA t : ~Contains(t, Unclassified))
         ELSE cut : top \in SortValues(Abundance(d, newrank))}
\* Lines 651-653 of update_taxa: the lists top can end as.
TopOptions(d, newrank, unc) ==
    {SliceTo(IF unc = "exclude"
             THEN SelectSeq(top, LAMBDA t : ~Contains(t, Unclassified))
             ELSE top, TopTaxa) : top \in SortValues(Abundance(d, newrank))}

\* Bug variant of Savefig: an empty Outfile saves too.
SavefigAlways(f, f_format) == {f \o <<".", f_format>>}
\* if f!="": plt.savefig(f+"."+f_format, ...): the files written.
Savefig(f, f_format) == IF f # <<>> THEN {f \o <<".", f_format>>} ELSE {}

\* z of clustermap, as the three if statements leave it.
ZScore(z_c, z_r) ==
    LET z1 == IF z_c THEN "1" ELSE None
        z2 == IF z_r THEN "0" ELSE z1
    IN  IF ~z_c /\ ~z_r THEN None ELSE z2

\* What a call of a plot function did: its arguments, whether it drew its
\* plot, raised, or returned early, and the files it wrote.
Call(fn, f, f_format, z_c, z_r, g1, g2, z, result) ==
    [fn |-> fn, f |-> f, f_format |-> f_format, z_c |-> z_c, z_r |-> z_r,
     g1 |-> g1, g2 |-> g2, z |-> z, result |-> result,
     saved |-> IF result = "drawn" THEN Savefig(f, f_format) ELSE {}]

\* The options of group1_select and group2_select: the sample columns.
GroupOptions == IF rank_select_options = <<>> THEN {} ELSE Elems(Samples)

\* The samples the user picks for the two groups: none, or the first sample
\* for Group1 and the second for Group2.
Group1Choices == SUBSET (GroupOptions \cap {Samples[1]})
Group2Choices == SUBSET (GroupOptions \cap {Samples[2]})

\* The notebook after its widget cell ran: no data, empty dropdowns.
PlotInit ==
    /\ pc = "ui"
    /\ ShellsIdle
    /\ TreeIdle
    /\ NetIdle
    /\ PlotIdle

\* make_plotdata, run from its widgets on two files. The observer update_taxa
\* runs when the assignment to rank_select.options changes the value; the
\* last assignment of make_plotdata then replaces the Taxa options.
MakePlotdata ==
    /\ pc = "ui"
    /\ \E merged \in Merged, h \in Turns :
          /\ data' = merged
          /\ rank_select_options' = Ranks
          /\ rank_select_value' \in ValueAfterOptions(rank_select_value, Ranks)
          /\ taxa_select_options' =
                SetList([k \in DOMAIN data' |-> data'[k][rank_select_value']], h)
    /\ UNCHANGED <<pc, unc_radio_value, out, shellVars, treeVars, netVars>>

\* The user picks another rank: rank_select.observe(update_taxa, 'value').
UpdateTaxa ==
    /\ pc = "ui"
    /\ \E newrank \in Elems(rank_select_options) \ {rank_select_value} :
          /\ rank_select_value' = newrank
          /\ taxa_select_options' \in TopOptions(data, newrank, unc_radio_value)
    /\ UNCHANGED <<pc, data, rank_select_options, unc_radio_value, out,
                   shellVars, treeVars, netVars>>

\* The user flips the Unknown buttons; nothing observes them.
SetUnknown ==
    /\ pc = "ui"
    /\ unc_radio_value' \in {"exclude", "include"} \ {unc_radio_value}
    /\ UNCHANGED <<pc, data, rank_select_options, rank_select_value, taxa_select_options,
                   out, shellVars, treeVars, netVars>>

\* barplot, run from its widgets. Without data rank is None and groupby raises.
Barplot ==
    /\ pc = "ui"
    /\ \E f \in Outfiles, f_format \in Formats :
          out' = Call("barplot", f, f_format, FALSE, FALSE, {}, {}, None,
                      IF rank_select_value = None THEN "raised" ELSE "drawn")
    /\ UNCHANGED <<pc, data, rank_select_options, rank_select_value, taxa_select_options,
                   unc_radio_value, shellVars, treeVars, netVars>>

\* clustermap, run from its widgets. sns.clustermap draws or raises: the
\* clustering fails on some tables, metrics and z-scores.
Clustermap ==
    /\ pc = "ui"
    /\ \E f \in Outfiles, f_format \in Formats, z_c \in BOOLEAN, z_r \in BOOLEAN,
          result \in {"drawn", "raised"} :
          /\ rank_select_value = None => result = "raised"
          /\ out' = Call("clustermap", f, f_format, z_c, z_r, {}, {},
                         ZScore(z_c, z_r), result)
    /\ UNCHANGED <<pc, data, rank_select_options, rank_select_value, taxa_select_options,
                   unc_radio_value, shellVars, treeVars, netVars>>

\* boxplot, run from its widgets, with the samples picked for the two groups.
Boxplot ==
    /\ pc = "ui"
    /\ \E f \in Outfiles, f_format \in Formats,
          g1 \in Group1Choices, g2 \in Group2Choices :
          out' = Call("boxplot", f, f_format, FALSE, FALSE, g1, g2, None,
                      IF g1 = {} \/ g2 = {} THEN "returned" ELSE "drawn")
    /\ UNCHANGED <<pc, data, rank_select_options, rank_select_value, taxa_select_options,
                   unc_radio_value, shellVars, treeVars, netVars>>

PlotNext == MakePlotdata \/ UpdateTaxa \/ SetUnknown \/ Barplot \/ Clustermap \/ Boxplot

SpecPlot == PlotInit /\ [][PlotNext]_vars

\* ------------------------------------------------ claims on the plots
\* The axis sns.clustermap z-scores for its argument z_score.
ZAxis(z) == IF z = "1" THEN "columns" ELSE IF z = "0" THEN "rows" ELSE "none"

ClustermapCalled == out.fn = "clustermap"

\* C11: in clustermap the z-score checkboxes select the axis: only 'z-score
\* columns' checked gives column z-scores, only 'z-score rows' gives row
\* z-scores, neither gives none, and with both checked 'z-score columns'
\* takes precedence.
C11_ZScoreColumnsFirst ==
    ClustermapCalled =>
        ZAxis(out.z) = IF out.z_c THEN "columns"
                       ELSE IF out.z_r THEN "rows" ELSE "none"

\* The taxa of the selected rank the Taxa field may offer: all of them, or
\* those that are classified.
Eligible(all) ==
    {t \in DOMAIN Abundance(data, rank_select_value) : all \/ ~Contains(t, Unclassified)}

\* A list of at most 14 of the taxa E, the most abundant ones, in decreasing
\* order of abundance.
IsTopList(opts, E) ==
    LET ab == Abundance(data, rank_select_value)
    IN  /\ Len(opts) = Min(TopTaxa, Cardinality(E))
        /\ Elems(opts) \subseteq E
        /\ \A a, b \in 1..Len(opts) : a < b => opts[a] # opts[b] /\ ab[opts[a]] >= ab[opts[b]]
        /\ \A t \in E \ Elems(opts) : \A a \in 1..Len(opts) : ab[opts[a]] >= ab[t]

DataLoaded == rank_select_value # None

\* C12: after any sequence of data loads and Rank changes the Taxa field
\* offers at most 14 taxa, the most abundant taxa of the selected rank (all of
\* them, or the classified ones), in decreasing order of abundance.
C12_TaxaAreTopFourteen ==
    DataLoaded =>
        \E all \in BOOLEAN : IsTopList(taxa_select_options, Eligible(all))

\* A step of update_taxa: the data stay and the observer sets the options.
RankChanged == data' = data /\ out' = out /\ UpdateTaxa

\* C13: when the Rank dropdown changes while Unknown is 'exclude', no option
\* of the Taxa field contains 'Unclassified' and the field offers the up to
\* 14 most abundant classified taxa of the new rank; a change of Unknown
\* leaves the Taxa options as they are.
C13_UnknownAppliesOnRankChange ==
    [][/\ (RankChanged /\ unc_radio_value = "exclude") =>
              /\ \A a \in 1..Len(taxa_select_options') :
                    ~Contains(taxa_select_options'[a], Unclassified)
              /\ Len(taxa_select_options') =
                    Min(TopTaxa, Cardinality({t \in DOMAIN Abundance(data, rank_select_value') :
                                                 ~Contains(t, Unclassified)}))
       /\ unc_radio_value' # unc_radio_value => taxa_select_options' = taxa_select_options
      ]_vars

\* Unknown is 'exclude', the rank was just changed to genus, an abundant
\* genus is unclassified, and 14 classified genera are offered.
C13_Witness ==
    /\ unc_radio_value = "exclude"
    /\ rank_select_value = "genus"
    /\ \E k \in DOMAIN data : Contains(data[k].genus, Unclassified)
    /\ Len(data) = MaxOrfs
    /\ Len(taxa_select_options) = TopTaxa
    /\ \A a \in 1..Len(taxa_select_options) : ~Contains(taxa_select_options[a], Unclassified)
    /\ IsTopList(taxa_select_options, Eligible(FALSE))

PlotCalled == out.fn \in {"barplot", "clustermap", "boxplot"}

\* C14 as stated: barplot, clustermap and boxplot write the file
\* Outfile.Format exactly when Outfile is not empty.
C14_Original ==
    PlotCalled =>
        out.saved = IF out.f # <<>> THEN {out.f \o <<".", out.f_format>>} ELSE {}

\* C14: a plot function writes a file exactly when Outfile is not empty and
\* the function drew its plot; the file is Outfile.Format with Format png or
\* pdf. boxplot with an empty group returns before it draws and writes nothing,
\* and so does a function that raises.
C14_SavesDrawnPlotWhenOutfileGiven ==
    PlotCalled =>
        /\ out.f_format \in {"png", "pdf"}
        /\ out.saved = IF out.f # <<>> /\ out.result = "drawn"
                       THEN {out.f \o <<".", out.f_format>>} ELSE {}
        /\ (out.fn = "boxplot" /\ (out.g1 = {} \/ out.g2 = {})) => out.result = "returned"
        /\ (out.fn = "boxplot" /\ out.g1 # {} /\ out.g2 # {}) => out.result = "drawn"

\* boxplot was called with an Outfile and an empty group, and wrote nothing.
C14_Witness ==
    /\ out.fn = "boxplot"
    /\ out.f = <<"plot">>
    /\ out.g1 = {}
    /\ out.g2 # {}
    /\ out.saved = {}

\* ------------------------------------------- add_subset, call by call
\* Lines 173-201: the loop over the pathways ps, started on graph g.
RECURSIVE LoopPathways(_, _, _, _, _)
LoopPathways(g, d, rt, c, ps) ==
    IF ps = <<>> THEN [raised |-> FALSE, dg |-> g]
    ELSE LET p == Head(ps)
         IN  IF p \notin DOMAIN d THEN [raised |-> TRUE, dg |-> g]
             ELSE LET r == d[p]
                      w == WalkLevels(g, r, c, rt, FirstLevel)
                  IN  IF r.Parent = NaN THEN [raised |-> TRUE, dg |-> w.g]
                      ELSE LoopPathways(AddLeaf(w.g, r, c, w.previous, p), d, rt, c, Tail(ps))

\* add_subset(root, pwys, metacyc_df, col): whether it raised, and its graph.
AddSubset(rt, ps, t, c) ==
    LoopPathways(EmptyGraph, GroupFirst(t, rt, Elems(ps)), rt, c, ps)

\* C15: the graph add_subset returns (nodes, edges, node attributes) depends
\* only on root, the category table and the set of pathways: called with the
\* same pathways in any other order it returns the same graph.
C15_OrderOfPathwaysIrrelevant ==
    TreeReturned =>
        \A q \in ListsOf(Elems(pwys)) :
            LET res == AddSubset(root, q, metacyc_df, col)
            IN  ~res.raised /\ res.dg = dg

\* Two pathways of different categories were handled, and the call on the
\* reversed list gives the graph returned.
C15_Witness ==
    /\ TreeReturned
    /\ Len(pwys) = 2
    /\ ~SameCategories(pwys[1], pwys[2])
    /\ Cardinality(dg.node) > ParentLevel + 2
    /\ AddSubset(root, <<pwys[2], pwys[1]>>, metacyc_df, col).dg = dg

\* ------------------------------------------------ the two functions
\* A call of make_shells or a call of add_subset; add_subset counts the
\* pathways of its loop from 1.
AddSubsetCalled == next_p >= 1
MakeShellsCalled == next_p = 0

CallInit == ShellsInit \/ TreeInit

CallNext == (MakeShellsCalled /\ ShellsNext) \/ (AddSubsetCalled /\ TreeNext)

SpecCalls == CallInit /\ [][CallNext]_vars

\* The loop of add_subset is at a pathway that has rows but no Parent.
AtMissingParent ==
    /\ AddSubsetCalled
    /\ pc = "loop"
    /\ next_p <= Len(pwys)
    /\ \E a \in 1..Len(metacyc_df) :
          metacyc_df[a].Category1 = root /\ metacyc_df[a].Pathway = pwys[next_p]
    /\ CellOf(pwys[next_p], "Parent") = NaN

\* C16: failures propagate as errors. add_subset at a pathway whose Parent is
\* missing raises, adds no node of the parent level in place of the missing
\* name and returns no graph; make_shells called with num_shells = 0 raises
\* and returns no shells. After the error the call does nothing more.
C16_ErrorsPropagate ==
    [][/\ AtMissingParent =>
              /\ pc' = "error"
              /\ \A n \in dg'.node \ dg.node : ~IsLevelNode(n, ParentLevel)
       /\ (MakeShellsCalled /\ pc = "call" /\ num_shells = 0) =>
              pc' = "error" /\ shells' = <<>>
       /\ pc # "error"
      ]_vars

\* make_shells was called on a list of nodes with num_shells = 0 and raised.
C16_Witness ==
    /\ MakeShellsCalled
    /\ pc = "error"
    /\ num_shells = 0
    /\ Len(input) >= 2
    /\ shells = <<>>

\* C17: the node count make_shells computes for a shell before the last,
\* from_inner + nodes_per_shell - to_outer, is never negative and never above
\* nodes_per_shell; so the slices take nodes from the front only and no inner
\* shell holds more than nodes_per_shell nodes.
C17_NumNodesWithinTarget ==
    MakeShellsCalled =>
        \A a \in 1..Len(num_nodes_log) :
            a < num_shells =>
                /\ num_nodes_log[a] >= 0
                /\ num_nodes_log[a] <= nodes_per_shell
                /\ Len(shells[a]) <= nodes_per_shell
                /\ LET before == Len(Flatten(SubSeq(shells, 1, a - 1)))
                   IN  /\ Len(shells[a]) = Min(num_nodes_log[a], Len(input) - before)
                       /\ shells[a] = SubSeq(input, before + 1, before + Len(shells[a]))

\* A call returned in which one inner shell was given the whole target count
\* and another inner shell none.
C17_Witness ==
    /\ ShellsReturned
    /\ nodes_per_shell >= 1
    /\ \E a, b \in 1..(num_shells - 1) :
          /\ num_nodes_log[a] = nodes_per_shell
          /\ num_nodes_log[b] = 0

====
